---------------------------- MODULE Spec2Model ----------------------------
(***************************************************************************)
(* A model of the BLEU score notebook 01_nlp_evals/bleu_score.ipynb:       *)
(* preprocess_text, n_gram_precision, brevity_penalty and                  *)
(* bleu_score_sentence.                                                    *)
(*                                                                         *)
(* The four functions are pure.  A state holds one call (the function and  *)
(* its arguments, drawn by the initial condition) and the call's outcome:  *)
(* pending, a returned value or a raised exception.  One action per        *)
(* function applies it to the arguments of the call.                       *)
(*                                                                         *)
(* A Python str is modelled as the sequence of its characters, a token     *)
(* (a normalized word) likewise, a list as a sequence, a Counter as a      *)
(* function from its keys to their counts, a float by the exact value it   *)
(* rounds (a ratio of two integers, or exp of such a ratio).               *)
(***************************************************************************)
EXTENDS Integers, Sequences, FiniteSets, TLC

VARIABLES call, outcome

vars == <<call, outcome>>

(***************************************************************************)
(* Bounds of the inputs.                                                   *)
(***************************************************************************)
\* preprocess_text: characters in all the elements of the argument together
MaxChars == 4
\* preprocess_text: elements of the argument list
MaxSentences == 2
\* tokens of a candidate
MaxCandLen == 3
\* references of a call
MaxRefs == 2
\* tokens in all the references of a call together
MaxRefTokens == 3
\* the order n of n_gram_precision and max_n of bleu_score_sentence
MaxOrder == 3
\* bleu_score_sentence: words of the candidate string
MaxCandWords == 2
\* bleu_score_sentence: words in all the reference strings together
MaxRefWords == 2
\* words of the long reference string, over 746 times a one-word candidate
LongRefWords == 747

(***************************************************************************)
(* Outcomes of a call.                                                     *)
(***************************************************************************)
Pending == [kind |-> "pending"]

Return(v) == [kind |-> "return", value |-> v]

Raise(e) == [kind |-> "raise", exc |-> e]

Returned == outcome.kind = "return"

Raised(e) == outcome.kind = "raise" /\ outcome.exc = e

(***************************************************************************)
(* Python values passed to preprocess_text.                                *)
(***************************************************************************)
\* the characters of the modelled alphabet: a lower-case letter, an
\* upper-case letter, a punctuation mark and a blank
Chars == {"a", "B", ".", " "}

PyStr(s) == [type |-> "str", chars |-> s]

PyInt == [type |-> "int"]

PyNone == [type |-> "NoneType"]

PyList(xs) == [type |-> "list", items |-> xs]

PyTuple(xs) == [type |-> "tuple", items |-> xs]

\* str.isspace, str.isalnum and str.lower on one character
IsSpace(ch) == ch = " "

IsAlnum(ch) == ch \in {"a", "B", "b"}

Lower(ch) == IF ch = "B" THEN "b" ELSE ch

Max(x, y) == IF x >= y THEN x ELSE y

Min(x, y) == IF x <= y THEN x ELSE y

Range(f) == {f[i] : i \in DOMAIN f}

(***************************************************************************)
(* str.split() without arguments: the maximal runs of non-blank            *)
(* characters, in order; leading, trailing and repeated blanks give no     *)
(* empty word.                                                             *)
(***************************************************************************)
WordStarts(s) ==
    SelectSeq([i \in 1..Len(s) |-> i],
              LAMBDA i : ~IsSpace(s[i]) /\ (i = 1 \/ IsSpace(s[i - 1])))

WordEnd(s, i) ==
    CHOOSE j \in i..Len(s) :
        /\ \A k \in i..j : ~IsSpace(s[k])
        /\ (j = Len(s) \/ IsSpace(s[j + 1]))

Split(s) ==
    LET starts == WordStarts(s)
    IN  [k \in 1..Len(starts) |-> SubSeq(s, starts[k], WordEnd(s, starts[k]))]

\* "".join(char.lower() for char in word if char.isalnum())
NormalizeWord(word) ==
    LET kept == SelectSeq(word, IsAlnum)
    IN  [i \in 1..Len(kept) |-> Lower(kept[i])]

\* a tokenizer that drops the words left empty by normalisation
TokenizeSentenceNoEmpty(sentence) ==
    LET words == Split(sentence)
    IN  SelectSeq([k \in 1..Len(words) |-> NormalizeWord(words[k])],
                  LAMBDA t : t # <<>>)

\* [NormalizeWord(word) for word in sentence.split()]
TokenizeSentence(sentence) ==
    LET words == Split(sentence)
    IN  [k \in 1..Len(words) |-> NormalizeWord(words[k])]

(***************************************************************************)
(* preprocess_text(sentences)                                              *)
(***************************************************************************)
preprocess_text(sentences) ==
    IF sentences.type # "list"
    THEN Raise("ValueError")
    ELSE IF \E i \in 1..Len(sentences.items) : sentences.items[i].type # "str"
         \* sentence.split() on an element that is not a str
         THEN Raise("AttributeError")
         ELSE Return([i \in 1..Len(sentences.items) |->
                         TokenizeSentence(sentences.items[i].chars)])

(***************************************************************************)
(* collections.Counter: a function from the distinct elements of a list to *)
(* the number of their occurrences; a key that is absent reads as 0.       *)
(***************************************************************************)
Counter(list) ==
    [g \in Range(list) |-> Cardinality({i \in DOMAIN list : list[i] = g})]

CounterGet(counter, key) == IF key \in DOMAIN counter THEN counter[key] ELSE 0

\* sum(counter.values())
RECURSIVE SumOver(_, _)
SumOver(counter, keys) ==
    IF keys = {} THEN 0
    ELSE LET k == CHOOSE x \in keys : TRUE
         IN  counter[k] + SumOver(counter, keys \ {k})

SumValues(counter) == SumOver(counter, DOMAIN counter)

\* [tuple(tokens[i:i+n]) for i in range(len(tokens)-n+1)], for n >= 1
NGramList(tokens, n) ==
    [i \in 1..(Len(tokens) - n + 1) |-> SubSeq(tokens, i, i + n - 1)]

(***************************************************************************)
(* n_gram_precision(candidate, references, n)                              *)
(***************************************************************************)
\* an update that adds the reference's count to the running count
UpdateMaxSum(max_counts, reference_n_grams) ==
    [g \in DOMAIN max_counts \cup DOMAIN reference_n_grams |->
        CounterGet(max_counts, g) + CounterGet(reference_n_grams, g)]

\* an update that overwrites the running count with the reference's count
UpdateMaxLast(max_counts, reference_n_grams) ==
    [g \in DOMAIN max_counts \cup DOMAIN reference_n_grams |->
        IF g \in DOMAIN reference_n_grams
        THEN reference_n_grams[g]
        ELSE max_counts[g]]

\* the inner loop over one reference's n-grams:
\* max_reference_n_grams[n_gram] = max(max_reference_n_grams[n_gram], count)
UpdateMax(max_counts, reference_n_grams) ==
    [g \in DOMAIN max_counts \cup DOMAIN reference_n_grams |->
        IF g \in DOMAIN reference_n_grams
        THEN Max(CounterGet(max_counts, g), reference_n_grams[g])
        ELSE max_counts[g]]

\* the loop over the references, from the k-th on
RECURSIVE MaxReferenceNGrams(_, _, _, _)
MaxReferenceNGrams(references, n, k, max_counts) ==
    IF k > Len(references) THEN max_counts
    ELSE MaxReferenceNGrams(references, n, k + 1,
             UpdateMax(max_counts, Counter(NGramList(references[k], n))))

\* a clipping that takes the reference maximum alone
ClippedCountsUnclipped(candidate_n_grams, max_reference_n_grams) ==
    [ng \in DOMAIN candidate_n_grams |-> CounterGet(max_reference_n_grams, ng)]

\* {ng: min(count, max_reference_n_grams[ng]) for ng, count in candidate_n_grams.items()}
ClippedCounts(candidate_n_grams, max_reference_n_grams) ==
    [ng \in DOMAIN candidate_n_grams |->
        Min(candidate_n_grams[ng], CounterGet(max_reference_n_grams, ng))]

n_gram_precision(candidate, references, n) ==
    IF n < 1
    THEN Raise("ValueError")
    ELSE LET candidate_n_grams == Counter(NGramList(candidate, n))
             max_reference_n_grams == MaxReferenceNGrams(references, n, 1, <<>>)
             clipped_counts == ClippedCounts(candidate_n_grams, max_reference_n_grams)
         IN  Return(<<SumValues(clipped_counts), SumValues(candidate_n_grams)>>)

(***************************************************************************)
(* Numbers.  An int is held as it is.  A float is held by what it was      *)
(* computed from: math.exp of a ratio of two integers, a product of the    *)
(* brevity penalty and the geometric mean of a list of ratios, or 0.0, the *)
(* double a result too small for the doubles is rounded to.                *)
(***************************************************************************)
IntVal(i) == [type |-> "int", value |-> i]

FloatZero == [type |-> "float", form |-> "zero"]

FloatExp(num, den) == [type |-> "float", form |-> "exp", num |-> num, den |-> den]

FloatProduct(bp, ratios) ==
    [type |-> "float", form |-> "product", bp |-> bp, ratios |-> ratios]

\* math.exp(num / den), den > 0: the doubles end at 2^-1074, and e^x is
\* rounded to 0.0 below x = -1075 ln 2 = -745.133...
math_exp(num, den) ==
    IF num * 1000 < (0 - 745133) * den THEN FloatZero ELSE FloatExp(num, den)

(***************************************************************************)
(* brevity_penalty(candidate, references)                                  *)
(***************************************************************************)
\* the length of the longest reference, from the k-th on
RECURSIVE MaxLength(_, _, _)
MaxLength(references, k, least) ==
    IF k > Len(references) THEN least
    ELSE MaxLength(references, k + 1,
                   IF Len(references[k]) > least THEN Len(references[k]) ELSE least)

\* min(len(reference) for reference in references), from the k-th on
RECURSIVE MinLength(_, _, _)
MinLength(references, k, least) ==
    IF k > Len(references) THEN least
    ELSE MinLength(references, k + 1,
                   IF Len(references[k]) < least THEN Len(references[k]) ELSE least)

\* a penalty whose test is c >= r
BrevityPenaltyAtLeast(candidate, references) ==
    IF Len(references) = 0
    THEN Raise("ValueError")
    ELSE LET c == Len(candidate)
             r == MinLength(references, 2, Len(references[1]))
         IN  IF c >= r THEN Return(IntVal(1))
             ELSE IF c = 0 THEN Raise("ZeroDivisionError")
             ELSE Return(math_exp(c - r, c))

\* c = len(candidate); r = min(...); 1 when c > r, else math.exp(1 - r / c)
brevity_penalty(candidate, references) ==
    IF Len(references) = 0
    \* min() of an empty sequence
    THEN Raise("ValueError")
    ELSE LET c == Len(candidate)
             r == MinLength(references, 2, Len(references[1]))
         IN  IF c > r THEN Return(IntVal(1))
             ELSE IF c = 0 THEN Raise("ZeroDivisionError")
             \* 1 - r / c is (c - r) / c
             ELSE Return(math_exp(c - r, c))

(***************************************************************************)
(* bleu_score_sentence(candidate_seq, references_seqs, max_n)              *)
(*                                                                         *)
(* A precision p_n / total is held as the pair <<p_n, total>>, and the int *)
(* 0 that stands for it when total is 0 as <<0, 1>>.                       *)
(***************************************************************************)
IsZeroRatio(p) == p[1] = 0

\* precisions.append(p_n / total if total > 0 else 0), for n in 1..max_n
Precisions(candidate, references, max_n) ==
    [n \in 1..max_n |->
        LET pair == n_gram_precision(candidate, references, n).value
        IN  IF pair[2] > 0 THEN pair ELSE <<0, 1>>]

\* a mean over every ratio, the zero ones included
RatiosInMeanAll(precisions) == precisions

\* [math.log(p) for p in precisions if p > 0]: the ratios the mean is over
RatiosInMean(precisions) == SelectSeq(precisions, LAMBDA p : ~IsZeroRatio(p))

\* a short circuit on any zero ratio
ShortCircuitsAny(precisions) == \E n \in 1..Len(precisions) : IsZeroRatio(precisions[n])

\* if all(p == 0 for p in precisions): return 0
ShortCircuits(precisions) == \A n \in 1..Len(precisions) : IsZeroRatio(precisions[n])

\* bp * geometric_mean as a double.  The geometric mean of k ratios, each
\* at least 1 / len(candidate), is 1.0 when every ratio is 1 and else a
\* double in (0, 1); the product is 0.0 when bp is, is above 0 when bp is
\* 1 or the mean is 1.0 or bp is at least e^-708, and may be rounded to
\* 0.0 in between.
Products(bp, ratios) ==
    IF bp = FloatZero THEN {FloatZero}
    ELSE IF \/ bp.type = "int"
            \/ \A k \in 1..Len(ratios) : ratios[k][1] = ratios[k][2]
            \/ bp.num >= (0 - 708) * bp.den
         THEN {FloatProduct(bp, ratios)}
         ELSE {FloatProduct(bp, ratios), FloatZero}

\* a combination that computes the brevity penalty before the short circuit
CombineBpFirst(candidate, references, max_n) ==
    LET precisions == Precisions(candidate, references, max_n)
        bp == brevity_penalty(candidate, references)
    IN  IF bp.kind = "raise" THEN {bp}
        ELSE IF ShortCircuits(precisions) THEN {Return(IntVal(0))}
        ELSE {Return(v) : v \in Products(bp.value, RatiosInMean(precisions))}

\* the body after preprocessing, on the token sequences: the outcomes of the call, one
\* but for a product at the edge of the doubles
Combine(candidate, references, max_n) ==
    LET precisions == Precisions(candidate, references, max_n)
    IN  IF ShortCircuits(precisions) THEN {Return(IntVal(0))}
        ELSE LET bp == brevity_penalty(candidate, references)
             IN  IF bp.kind = "raise" THEN {bp}
                 ELSE {Return(v) :
                         v \in Products(bp.value, RatiosInMean(precisions))}

bleu_score_sentence(candidate_seq, references_seqs, max_n) ==
    LET candidate_out == preprocess_text(PyList(<<PyStr(candidate_seq)>>))
        references_out == preprocess_text(references_seqs)
    IN  IF candidate_out.kind = "raise" THEN {candidate_out}
        ELSE IF references_out.kind = "raise" THEN {references_out}
        ELSE Combine(candidate_out.value[1], references_out.value, max_n)

(***************************************************************************)
(* The arguments of the modelled calls.                                    *)
(***************************************************************************)
\* the sequences over S of length at most n
RECURSIVE SeqsUpTo(_, _)
SeqsUpTo(S, n) ==
    IF n = 0 THEN {<<>>}
    ELSE LET shorter == SeqsUpTo(S, n - 1)
         IN  shorter \cup {Append(s, x) : s \in shorter, x \in S}

\* the sequences over S of length exactly n
SeqsOfLen(S, n) == {s \in SeqsUpTo(S, n) : Len(s) = n}

\* the sequences of at most m lengths that sum to at most budget
RECURSIVE Profiles(_, _)
Profiles(m, budget) ==
    IF m = 0 THEN {<<>>}
    ELSE {<<>>} \cup
         UNION {{<<l>> \o p : p \in Profiles(m - 1, budget - l)} : l \in 0..budget}

\* the lists whose k-th sequence is over S and of length profile[k]
RECURSIVE ListsOfProfile(_, _)
ListsOfProfile(S, profile) ==
    IF profile = <<>> THEN {<<>>}
    ELSE {<<s>> \o rest : s \in SeqsOfLen(S, Head(profile)),
                          rest \in ListsOfProfile(S, Tail(profile))}

\* the lists of at most m sequences over S that hold at most budget
\* elements of S together
SeqLists(S, m, budget) ==
    UNION {ListsOfProfile(S, p) : p \in Profiles(m, budget)}

\* the tokens of the calls of n_gram_precision and brevity_penalty
Tokens == {<<"a">>, <<"b">>}

AsStrs(list) == [i \in 1..Len(list) |-> PyStr(list[i])]

\* lists of str, the same lists with one element replaced by an int, tuples
\* of str, a bare str, an int and None
InitPreprocess ==
    /\ \E list \in SeqLists(Chars, MaxSentences, MaxChars) :
          \E sentences \in
                {PyList(AsStrs(list)), PyTuple(AsStrs(list)), PyInt, PyNone}
                \cup {PyStr(list[i]) : i \in 1..Len(list)}
                \cup {PyList([AsStrs(list) EXCEPT ![i] = PyInt]) : i \in 1..Len(list)} :
             call = [fn |-> "preprocess_text", sentences |-> sentences]
    /\ outcome = Pending

InitNGram ==
    /\ \E candidate \in SeqsUpTo(Tokens, MaxCandLen) :
          \E references \in SeqLists(Tokens, MaxRefs, MaxRefTokens) :
             \E n \in 0..MaxOrder :
                call = [fn |-> "n_gram_precision", candidate |-> candidate,
                        references |-> references, n |-> n]
    /\ outcome = Pending

InitBrevity ==
    /\ \E candidate \in SeqsUpTo(Tokens, MaxCandLen) :
          \E references \in SeqLists(Tokens, MaxRefs, MaxRefTokens) :
             call = [fn |-> "brevity_penalty", candidate |-> candidate,
                     references |-> references]
    /\ outcome = Pending

\* the words of the strings passed to bleu_score_sentence
RawWords == {<<"a">>, <<"b">>, <<"B", ".">>}

\* " ".join(words)
RECURSIVE Join(_)
Join(words) ==
    IF Len(words) = 0 THEN <<>>
    ELSE IF Len(words) = 1 THEN words[1]
    ELSE words[1] \o <<" ">> \o Join(Tail(words))

\* LongRefWords times the word a, a blank between two of them
LongReference == [i \in 1..(2 * LongRefWords - 1) |-> IF i % 2 = 1 THEN "a" ELSE " "]

\* the candidate: a string of words, a blank, a punctuation mark
\* the references: strings of words, or the long reference alone
InitBleu ==
    /\ \E candidate \in {Join(words) : words \in SeqsUpTo(RawWords, MaxCandWords)}
                          \cup {<<" ">>, <<".">>} :
          \E references \in
                {[i \in 1..Len(list) |-> Join(list[i])] :
                    list \in SeqLists(RawWords, MaxRefs, MaxRefWords)}
                \cup {<<LongReference>>, <<<<".">>, <<"a", " ", ".">>>>} :
             \E max_n \in 0..MaxOrder :
                call = [fn |-> "bleu_score_sentence", candidate_seq |-> candidate,
                        references_seqs |-> PyList(AsStrs(references)),
                        max_n |-> max_n]
    /\ outcome = Pending

RunPreprocessText ==
    /\ call.fn = "preprocess_text"
    /\ outcome = Pending
    /\ outcome' = preprocess_text(call.sentences)
    /\ UNCHANGED call

RunNGramPrecision ==
    /\ call.fn = "n_gram_precision"
    /\ outcome = Pending
    /\ outcome' = n_gram_precision(call.candidate, call.references, call.n)
    /\ UNCHANGED call

RunBrevityPenalty ==
    /\ call.fn = "brevity_penalty"
    /\ outcome = Pending
    /\ outcome' = brevity_penalty(call.candidate, call.references)
    /\ UNCHANGED call

RunBleuScoreSentence ==
    /\ call.fn = "bleu_score_sentence"
    /\ outcome = Pending
    /\ outcome' \in bleu_score_sentence(call.candidate_seq, call.references_seqs,
                                        call.max_n)
    /\ UNCHANGED call

Init == InitPreprocess \/ InitNGram \/ InitBrevity \/ InitBleu

Next ==
    \/ RunPreprocessText
    \/ RunNGramPrecision
    \/ RunBrevityPenalty
    \/ RunBleuScoreSentence

Spec == Init /\ [][Next]_vars

SpecPreprocess == InitPreprocess /\ [][RunPreprocessText]_vars

SpecNGram == InitNGram /\ [][RunNGramPrecision]_vars

SpecBrevity == InitBrevity /\ [][RunBrevityPenalty]_vars

SpecBleu == InitBleu /\ [][RunBleuScoreSentence]_vars

(***************************************************************************)
(* The properties.                                                         *)
(***************************************************************************)
Done == outcome.kind # "pending"

\* the occurrences of the n-gram g in a token sequence, from the positions
Occurrences(tokens, g) ==
    Cardinality({i \in 1..(Len(tokens) - Len(g) + 1) :
                    SubSeq(tokens, i, i + Len(g) - 1) = g})

\* the most occurrences of g in one reference, 0 without a reference
Ceiling(references, g) ==
    LET counts == {Occurrences(references[k], g) : k \in 1..Len(references)} \cup {0}
    IN  CHOOSE m \in counts : \A x \in counts : x <= m

\* the candidate's positions that are credited: the j-th occurrence of an
\* n-gram is, as long as j is at most the n-gram's ceiling
Credited(candidate, references, n) ==
    {i \in 1..(Len(candidate) - n + 1) :
        LET g == SubSeq(candidate, i, i + n - 1)
        IN  Cardinality({j \in 1..i : SubSeq(candidate, j, j + n - 1) = g})
               <= Ceiling(references, g)}

NGramDone == call.fn = "n_gram_precision" /\ Done /\ call.n >= 1

\* C1: for n >= 1 n_gram_precision returns (numerator, denominator) with
\* 0 <= numerator <= denominator and denominator =
\* max(0, len(candidate) - n + 1), which is 0 exactly when the candidate has
\* fewer than n tokens.
C1_FractionBounds ==
    NGramDone =>
        /\ Returned
        /\ 0 <= outcome.value[1]
        /\ outcome.value[1] <= outcome.value[2]
        /\ outcome.value[2] = Max(0, Len(call.candidate) - call.n + 1)
        /\ (outcome.value[2] = 0 <=> Len(call.candidate) < call.n)

\* a candidate of at least n tokens whose count is clipped, but not to 0
C1_Witness ==
    /\ NGramDone
    /\ Returned
    /\ 0 < outcome.value[1]
    /\ outcome.value[1] < outcome.value[2]

\* C2: the numerator is the sum over the candidate's distinct n-grams of
\* min(count in the candidate, greatest count in one reference); the
\* ceiling is not summed over the references, so that a second copy of
\* every reference leaves the numerator as it is, and an n-gram of no
\* reference adds 0.
C2_ClippedSum ==
    NGramDone =>
        /\ Returned
        /\ outcome.value[1] =
              Cardinality(Credited(call.candidate, call.references, call.n))
        /\ n_gram_precision(call.candidate, call.references \o call.references,
                            call.n) = outcome
        /\ (\A i \in 1..(Len(call.candidate) - call.n + 1) :
               Ceiling(call.references,
                       SubSeq(call.candidate, i, i + call.n - 1)) = 0)
              => outcome.value[1] = 0

\* an n-gram twice in the candidate and once in each of two references is
\* credited once
C2_Witness ==
    /\ NGramDone
    /\ Returned
    /\ Len(call.references) = 2
    /\ \E i \in 1..(Len(call.candidate) - call.n + 1) :
          LET g == SubSeq(call.candidate, i, i + call.n - 1)
          IN  /\ Occurrences(call.candidate, g) >= 2
              /\ Occurrences(call.references[1], g) = 1
              /\ Occurrences(call.references[2], g) = 1
    /\ outcome.value[1] = 1

\* C3: n_gram_precision returns the same pair for every order of the
\* reference list.
C3_ReferenceOrder ==
    NGramDone =>
        \A p \in Permutations(1..Len(call.references)) :
            n_gram_precision(call.candidate,
                             [k \in 1..Len(call.references) |-> call.references[p[k]]],
                             call.n) = outcome

\* two references that hold an n-gram of the candidate, the first more
\* often than the second
C3_Witness ==
    /\ NGramDone
    /\ Returned
    /\ Len(call.references) = 2
    /\ \E i \in 1..(Len(call.candidate) - call.n + 1) :
          LET g == SubSeq(call.candidate, i, i + call.n - 1)
          IN  /\ Occurrences(call.candidate, g) >= 2
              /\ Occurrences(call.references[1], g) >
                    Occurrences(call.references[2], g)
              /\ Occurrences(call.references[2], g) > 0
    /\ outcome.value[1] >= 2

BrevityDone == call.fn = "brevity_penalty" /\ Done

\* the length of a shortest reference
ShortestLength(references) ==
    LET lengths == {Len(references[k]) : k \in 1..Len(references)}
    IN  CHOOSE m \in lengths : \A x \in lengths : m <= x

\* C4: for a candidate of c >= 1 tokens and at least one reference, with r
\* the least length of a reference, brevity_penalty returns 1 when c > r
\* and else exp(1 - r/c), whose exponent is 0 exactly when c = r and below
\* 0 when c < r.
C4_Penalty ==
    (BrevityDone /\ Len(call.candidate) > 0 /\ Len(call.references) > 0) =>
        LET c == Len(call.candidate)
            r == ShortestLength(call.references)
            v == outcome.value
        IN  /\ Returned
            /\ c > r => v = IntVal(1)
            /\ c <= r =>
                  /\ v.type = "float"
                  /\ v.form = "exp"
                  /\ v.den > 0
                  /\ v.num * c = (c - r) * v.den
                  /\ (v.num = 0 <=> c = r)
                  /\ (v.num < 0 <=> c < r)

\* references of two lengths, the first the longer, and a candidate as long
\* as the shorter
C4_Witness ==
    /\ BrevityDone
    /\ Returned
    /\ Len(call.references) = 2
    /\ Len(call.references[1]) > Len(call.references[2])
    /\ Len(call.candidate) = Len(call.references[2])
    /\ outcome.value.type = "float"

\* C8: brevity_penalty of an empty candidate and at least one reference
\* ends in the division by zero and returns nothing.
C8_EmptyCandidate ==
    (BrevityDone /\ Len(call.candidate) = 0 /\ Len(call.references) > 0) =>
        Raised("ZeroDivisionError")

\* an empty candidate and an empty reference among the references
C8_Witness ==
    /\ BrevityDone
    /\ Len(call.candidate) = 0
    /\ \E k \in 1..Len(call.references) : Len(call.references[k]) = 0
    /\ Raised("ZeroDivisionError")

PreprocessDone == call.fn = "preprocess_text" /\ Done

\* a list whose elements are all str
IsListOfStr(v) ==
    /\ v.type = "list"
    /\ \A i \in 1..Len(v.items) : v.items[i].type = "str"

\* C7: preprocess_text raises ValueError whenever its argument is not a
\* list of strings (a bare string, a value that is no list, a list with an
\* element that is no string) and returns, without that error, for every
\* list of strings.
C7_InputTypeError ==
    PreprocessDone =>
        IF IsListOfStr(call.sentences) THEN Returned ELSE Raised("ValueError")

\* the positions of a string at which a word starts
StartsOf(s) ==
    {i \in 1..Len(s) : ~IsSpace(s[i]) /\ (i = 1 \/ IsSpace(s[i - 1]))}

\* token t is word w lower-cased and without what is not alphanumeric
IsTokenOf(t, w) ==
    /\ Len(t) = Cardinality({p \in 1..Len(w) : IsAlnum(w[p])})
    /\ \A p \in 1..Len(w) :
          IsAlnum(w[p]) =>
             t[Cardinality({q \in 1..p : IsAlnum(w[q])})] = Lower(w[p])

\* tokens holds one token for each word of s, in the order of the words
IsTokensOf(tokens, s) ==
    /\ Len(tokens) = Cardinality(StartsOf(s))
    /\ \A i \in StartsOf(s) :
          \E j \in i..Len(s) :
             /\ \A k \in i..j : ~IsSpace(s[k])
             /\ (j = Len(s) \/ IsSpace(s[j + 1]))
             /\ IsTokenOf(tokens[Cardinality({x \in StartsOf(s) : x <= i})],
                          SubSeq(s, i, j))

\* C9: preprocess_text returns one token sequence for each input string, in
\* the order of the input, and each holds one token for each word of its
\* string, in the order of the words: the word lower-cased and without its
\* characters that are not alphanumeric, the empty token included.
C9_OneTokenPerWord ==
    (PreprocessDone /\ IsListOfStr(call.sentences)) =>
        /\ Returned
        /\ Len(outcome.value) = Len(call.sentences.items)
        /\ \A i \in 1..Len(call.sentences.items) :
              IsTokensOf(outcome.value[i], call.sentences.items[i].chars)

\* two strings, the first of two words of which one is but punctuation
C9_Witness ==
    /\ PreprocessDone
    /\ Returned
    /\ Len(outcome.value) = 2
    /\ Len(outcome.value[1]) = 2
    /\ \E k \in 1..2 : outcome.value[1][k] = <<>>
    /\ outcome.value[2] # <<>>

BleuDone == call.fn = "bleu_score_sentence" /\ Done

\* the token sequences of the candidate and of the references
CandTokens == TokenizeSentence(call.candidate_seq)

RefTokens ==
    [k \in 1..Len(call.references_seqs.items) |->
        TokenizeSentence(call.references_seqs.items[k].chars)]

\* the fractions of the orders 1..max_n
Fractions ==
    LET candidate == CandTokens
        references == RefTokens
    IN  [n \in 1..call.max_n |-> n_gram_precision(candidate, references, n).value]

\* the orders whose ratio is above 0
PositiveOrders(fractions) ==
    {n \in 1..Len(fractions) : fractions[n][1] > 0 /\ fractions[n][2] > 0}

\* the int 0 or the double 0.0
ValueIsZero(v) == v = IntVal(0) \/ v = FloatZero

\* a brevity penalty of 1: the int 1 or e^0
BpIsOne(bp) ==
    \/ bp = IntVal(1)
    \/ (bp.type = "float" /\ bp.form = "exp" /\ bp.num = 0)

\* a product of a penalty of 1 and the mean of ratios that are all 1
ValueIsOne(v) ==
    /\ v.type = "float"
    /\ v.form = "product"
    /\ BpIsOne(v.bp)
    /\ \A k \in 1..Len(v.ratios) : v.ratios[k][1] = v.ratios[k][2]

\* the product, above 0, of a brevity penalty and of the geometric mean of
\* the fractions above 0, and of these alone; the penalty is 1 for c > r
\* and else exp((c - r) / c)
IsMeanOfPositive(v, c, r, fractions) ==
    LET positive == PositiveOrders(fractions)
    IN  /\ v.type = "float"
        /\ v.form = "product"
        /\ v.bp = (IF c > r THEN IntVal(1) ELSE FloatExp(c - r, c))
        /\ Len(v.ratios) = Cardinality(positive)
        /\ \A n \in positive :
              v.ratios[Cardinality({m \in positive : m <= n})] = fractions[n]

\* C5 as claimed: bleu_score_sentence returns 0 if and only if the ratio of
\* every order 1..max_n is 0; with a ratio above 0 the score is above 0 and
\* is the brevity penalty times the geometric mean of the ratios above 0.
C5_ZeroIffAllZero ==
    BleuDone =>
        LET fractions == Fractions
            c == Len(CandTokens)
            r == ShortestLength(RefTokens)
        IN  /\ Returned
            /\ ValueIsZero(outcome.value) <=> PositiveOrders(fractions) = {}
            /\ PositiveOrders(fractions) # {} =>
                  IsMeanOfPositive(outcome.value, c, r, fractions)

\* C5 as amended: bleu_score_sentence returns 0 when the ratio of every
\* order 1..max_n is 0.  With a ratio above 0 the orders of ratio 0 are left
\* out of the mean; the score is the brevity penalty times the geometric
\* mean of the ratios above 0 and is above 0 when the shortest reference
\* has at most 700 times the tokens of the candidate, and it is 0.0 when
\* the shortest reference has 747 times the tokens of the candidate or more
\* (math.exp(1 - r/c) is rounded to 0.0).
C5_ZeroExcluded ==
    BleuDone =>
        LET fractions == Fractions
            c == Len(CandTokens)
            r == ShortestLength(RefTokens)
        IN  /\ Returned
            /\ PositiveOrders(fractions) = {} => outcome.value = IntVal(0)
            /\ PositiveOrders(fractions) # {} =>
                  /\ r <= 700 * c =>
                        IsMeanOfPositive(outcome.value, c, r, fractions)
                  /\ r >= 747 * c => outcome.value = FloatZero

\* an order whose fraction is 0 over a total above 0 is left out of the
\* mean of a score above 0
C5_Witness ==
    /\ BleuDone
    /\ Returned
    /\ outcome.value.type = "float"
    /\ outcome.value.form = "product"
    /\ LET fractions == Fractions
       IN  /\ \E n \in 1..call.max_n :
                 fractions[n][1] = 0 /\ fractions[n][2] > 0
           /\ Len(outcome.value.ratios) < call.max_n

\* the candidate has a token and a reference has the candidate's tokens
CandidateIsAReference ==
    LET candidate == CandTokens
        references == RefTokens
    IN  /\ candidate # <<>>
        /\ \E k \in 1..Len(references) : references[k] = candidate

\* C6 as claimed: when the candidate's token sequence is not empty and is
\* that of a reference, bleu_score_sentence returns 1.
C6_MatchScoresOne ==
    (BleuDone /\ CandidateIsAReference) =>
        Returned /\ ValueIsOne(outcome.value)

\* C6 as amended: when the candidate's token sequence is not empty and is
\* that of a reference and max_n >= 1, bleu_score_sentence returns 1: the
\* fraction of every order n <= len(candidate) has its numerator equal to
\* its denominator, every higher order is left out, and the brevity
\* penalty is 1.
C6_MatchScoresOneFromOrderOne ==
    (BleuDone /\ CandidateIsAReference /\ call.max_n >= 1) =>
        LET fractions == Fractions
            c == Len(CandTokens)
        IN  /\ Returned
            /\ ValueIsOne(outcome.value)
            /\ Len(outcome.value.ratios) = Min(call.max_n, c)
            /\ \A n \in 1..call.max_n :
                  IF n <= c
                  THEN fractions[n][1] = fractions[n][2] /\ fractions[n][2] > 0
                  ELSE fractions[n][2] = 0

\* a candidate of fewer tokens than max_n, written unlike the reference of
\* its tokens
C6_Witness ==
    /\ BleuDone
    /\ CandidateIsAReference
    /\ call.max_n > Len(CandTokens)
    /\ \A k \in 1..Len(call.references_seqs.items) :
          call.references_seqs.items[k].chars # call.candidate_seq
    /\ Returned
    /\ ValueIsOne(outcome.value)

\* C10: the test of the ratios comes before the brevity penalty: for a
\* candidate of no token and for an empty reference list
\* bleu_score_sentence returns 0, the brevity penalty is computed only for
\* a candidate of a token or more and a reference or more, and no call
\* raises.
C10_ShortCircuitFirst ==
    BleuDone =>
        LET c == Len(CandTokens)
            k == Len(call.references_seqs.items)
        IN  /\ outcome.kind # "raise"
            /\ (c = 0 \/ k = 0) => outcome = Return(IntVal(0))
            /\ outcome # Return(IntVal(0)) => (c >= 1 /\ k >= 1)

\* a candidate of blanks alone, with a reference and max_n >= 1
C10_Witness ==
    /\ BleuDone
    /\ call.candidate_seq # <<>>
    /\ CandTokens = <<>>
    /\ Len(call.references_seqs.items) >= 1
    /\ call.max_n >= 1
    /\ outcome = Return(IntVal(0))

=============================================================================
